---- MODULE Spec2Model ----
(***************************************************************************)
(* IMD Weather Data Dashboard (src/app.py): one Streamlit script that is   *)
(* executed from top to bottom on every user interaction.  The state that  *)
(* survives between executions is st.session_state; the widgets' values    *)
(* are the inputs of an execution.                                         *)
(*                                                                         *)
(* Floats are modelled as fixed-point integers counting units of           *)
(* 10^-FracDigits degree, with the two special values NaN and Inf; texts   *)
(* typed into the widgets are sequences of one-character strings; a date   *)
(* is a day number; a year is the prefix of a file name.                   *)
(***************************************************************************)
EXTENDS Integers, Sequences, FiniteSets, TLC

VARIABLES
    files,          \* data/<parameter>/<year>_*.parquet: parameter -> year -> rows
    session,        \* st.session_state
    event,          \* what the user did to start the last execution
    parameter,      \* value of the "Select Parameter" selectbox in the last execution
    selected_year,  \* value of the "Select Year" selectbox in the last execution
    config,         \* GRID_CONFIG[parameter] of the last execution
    df,             \* load_year_data(parameter, selected_year) of the last execution
    outcome,        \* which message / page the last execution ended with
    lat_val,        \* float(st.session_state.lat) of the last execution
    lon_val,        \* float(st.session_state.lon) of the last execution
    observation,    \* the Description tab: <<>> or one [lat, lon, date, value]
    all_data        \* the Tabular / Graphical tabs: the rows of the time series

vars == <<files, session, event, parameter, selected_year, config, df,
          outcome, lat_val, lon_val, observation, all_data>>

-----------------------------------------------------------------------------
(* Floats *)

FracDigits == 7
Scale == 10^FracDigits          \* units per degree
NaN == -2000000000              \* float("nan"), a missing cell of a numeric column
Inf == 2000000000               \* float("inf")
Unbound == NaN - 1              \* a name the execution never assigned

epsilon == Scale \div 1000000   \* 1e-6

Abs(x) == IF x < 0 THEN -x ELSE x

\* a <= b on floats: every comparison with NaN is false
FLe(a, b) == a # NaN /\ b # NaN /\ a <= b

DigitChars == {"0", "1", "2", "3", "4", "5", "6", "7", "8", "9"}

DigitValue(c) ==
    CASE c = "0" -> 0 [] c = "1" -> 1 [] c = "2" -> 2 [] c = "3" -> 3
      [] c = "4" -> 4 [] c = "5" -> 5 [] c = "6" -> 6 [] c = "7" -> 7
      [] c = "8" -> 8 [] c = "9" -> 9

RECURSIVE ToNat(_)
ToNat(s) == IF s = <<>> THEN 0
            ELSE ToNat(SubSeq(s, 1, Len(s) - 1)) * 10 + DigitValue(s[Len(s)])

IsDigits(s) == \A i \in 1..Len(s) : s[i] \in DigitChars

\* float(text): [ok |-> FALSE] stands for ValueError.  Decimal notation with an
\* optional sign, "nan" and "inf"; at most three integer and FracDigits
\* fractional digits are represented.
Float(s) ==
    LET signed == Len(s) > 0 /\ s[1] \in {"+", "-"}
        neg    == signed /\ s[1] = "-"
        body   == IF signed THEN Tail(s) ELSE s
        dots   == {i \in 1..Len(body) : body[i] = "."}
        dot    == IF dots = {} THEN Len(body) + 1 ELSE CHOOSE i \in dots : TRUE
        ip     == SubSeq(body, 1, dot - 1)
        fp     == SubSeq(body, dot + 1, Len(body))
        mag    == ToNat(ip) * Scale + ToNat(fp) * 10^(FracDigits - Len(fp))
    IN  IF body = <<"n", "a", "n">> THEN [ok |-> TRUE, v |-> NaN]
        ELSE IF body = <<"i", "n", "f">>
             THEN [ok |-> TRUE, v |-> IF neg THEN -Inf ELSE Inf]
        ELSE IF /\ Cardinality(dots) <= 1
                /\ IsDigits(ip) /\ IsDigits(fp)
                /\ Len(ip) + Len(fp) >= 1
                /\ Len(ip) <= 3 /\ Len(fp) <= FracDigits
             THEN [ok |-> TRUE, v |-> IF neg THEN -mag ELSE mag]
        ELSE [ok |-> FALSE, v |-> Unbound]

-----------------------------------------------------------------------------
(* Grid config *)

Params == <<"rain", "tmax", "tmin">>
ParamSet == {Params[i] : i \in 1..Len(Params)}

\* a coordinate given in hundredths of a degree: Deg(650) is 6.5
Deg(h) == h * (Scale \div 100)

\* GRID_CONFIG with the rain grid's eastern bound mistyped as 100.1
GridConfigMisaligned ==
    [rain |-> [resolution |-> Deg(25),
               lat_min |-> Deg(650), lat_max |-> Deg(3850),
               lon_min |-> Deg(6650), lon_max |-> Deg(10010)],
     tmax |-> [resolution |-> Deg(100),
               lat_min |-> Deg(750), lat_max |-> Deg(3750),
               lon_min |-> Deg(6750), lon_max |-> Deg(9750)],
     tmin |-> [resolution |-> Deg(100),
               lat_min |-> Deg(750), lat_max |-> Deg(3750),
               lon_min |-> Deg(6750), lon_max |-> Deg(9750)]]

GRID_CONFIG ==
    [rain |-> [resolution |-> Deg(25),
               lat_min |-> Deg(650), lat_max |-> Deg(3850),
               lon_min |-> Deg(6650), lon_max |-> Deg(10000)],
     tmax |-> [resolution |-> Deg(100),
               lat_min |-> Deg(750), lat_max |-> Deg(3750),
               lon_min |-> Deg(6750), lon_max |-> Deg(9750)],
     tmin |-> [resolution |-> Deg(100),
               lat_min |-> Deg(750), lat_max |-> Deg(3750),
               lon_min |-> Deg(6750), lon_max |-> Deg(9750)]]

-----------------------------------------------------------------------------
(* Session state *)

None == "None"
NoDate == 0

InitSession ==
    [parameter |-> "rain", year |-> None, lat |-> <<>>, lon |-> <<>>,
     date |-> NoDate, submitted |-> FALSE]

\* a reset that forgets to clear the submitted flag
ResetKeepsSubmitted(s) ==
    [s EXCEPT !.lat = <<>>, !.lon = <<>>, !.date = NoDate,
              !.parameter = "rain", !.year = None]

\* if reset_button: ...
ResetSession(s) ==
    [s EXCEPT !.lat = <<>>, !.lon = <<>>, !.date = NoDate,
              !.parameter = "rain", !.year = None, !.submitted = FALSE]

\* if submit_button: ...
SubmitSession(s, p, y, d, lat_input, lon_input) ==
    [s EXCEPT !.lat = lat_input, !.lon = lon_input, !.date = d,
              !.parameter = p, !.year = y, !.submitted = TRUE]

-----------------------------------------------------------------------------
(* The data folder *)

AllYears == <<"2020", "2021">>      \* file-name prefixes, in sorted order

\* years = sorted(prefixes of the parquet files of data/<parameter>)
Years(p) == SelectSeq(AllYears, LAMBDA y : y \in DOMAIN files[p])

\* load_year_data(parameter, year): the rows of the year's file, in file order
LoadYearData(p, y) == files[p][y]

Row(d, la, lo, v) == [date |-> d, lat |-> la, lon |-> lo, value |-> v]

\* The folder the dashboard runs on: every parameter has at least one file, as
\* the storage layout promises.  Rows are out of date order, day 2 of 2020 has
\* no rain row, and one value is missing (NaN).
DATA_FILES ==
    [rain |-> ("2020" :> << Row(3, Deg(750), Deg(8050), 80),
                            Row(1, Deg(750), Deg(8050), 124),
                            Row(1, Deg(650), Deg(6650), NaN) >>)
           @@ ("2021" :> << Row(4, Deg(750), Deg(8050), 30) >>),
     tmax |-> ("2020" :> << Row(2, Deg(3750), Deg(9750), 310),
                            Row(1, Deg(750), Deg(8050), 300) >>),
     tmin |-> ("2021" :> << Row(4, Deg(750), Deg(8050), 200) >>)]

Dates(rows) == {rows[i].date : i \in 1..Len(rows)}
MinDate(rows) == CHOOSE d \in Dates(rows) : \A e \in Dates(rows) : d <= e
MaxDate(rows) == CHOOSE d \in Dates(rows) : \A e \in Dates(rows) : e <= d

-----------------------------------------------------------------------------
(* Main logic *)

\* the bounds check with the boundary values excluded
InBoundsStrict(lo, x, hi) == FLe(lo, x) /\ FLe(x, hi) /\ x # lo /\ x # hi

\* the bounds check with the upper bound forgotten
InBoundsLowerOnly(lo, x, hi) == FLe(lo, x)

\* the tolerance test with epsilon itself accepted
NearInclusive(cell, target) ==
    cell # NaN /\ target # NaN /\ Abs(cell - target) <= epsilon

\* the date filter keeping every row up to the query date
DateFilteredUpTo(rows, d) == SelectSeq(rows, LAMBDA r : r.date <= d)

\* the rows in any order: the sort left out
SortValuesUnsorted(rows) ==
    LET n == Len(rows)
        perms == {f \in [1..n -> 1..n] : \A i, j \in 1..n : i # j => f[i] # f[j]}
    IN  {[i \in 1..n |-> rows[f[i]]] : f \in perms}

\* config["lat_min"] <= lat_val <= config["lat_max"]
InBounds(lo, x, hi) == FLe(lo, x) /\ FLe(x, hi)

\* np.abs(column - target) < epsilon; a missing cell compares false
Near(cell, target) == cell # NaN /\ target # NaN /\ Abs(cell - target) < epsilon

\* df[df["date"] == selected_date]
DateFiltered(rows, d) == SelectSeq(rows, LAMBDA r : r.date = d)

\* the match testing the latitude only
ExactMatchLatOnly(rows, la, lo) == SelectSeq(rows, LAMBDA r : Near(r.lat, la))

\* rows[(|lat - lat_val| < epsilon) & (|lon - lon_val| < epsilon)]
ExactMatch(rows, la, lo) ==
    SelectSeq(rows, LAMBDA r : Near(r.lat, la) /\ Near(r.lon, lo))

\* .sort_values("date"): the orders of the rows a sort by date may produce
\* (the default sort is not stable, rows of one date come in any order)
SortValues(rows) ==
    LET n == Len(rows)
        perms == {f \in [1..n -> 1..n] : \A i, j \in 1..n : i # j => f[i] # f[j]}
    IN  {[i \in 1..n |-> rows[f[i]]] : f \in
            {g \in perms : \A i \in 1..n - 1 : rows[g[i]].date <= rows[g[i + 1]].date}}

Ended(o, la, lo) ==
    [outcome |-> o, lat_val |-> la, lon_val |-> lo, observation |-> <<>>,
     matched |-> <<>>]

\* Lines 122-208: what one execution shows, given the session state after the
\* buttons were handled, the selected parameter's grid config and the loaded
\* data.  "matched" are the rows of the time series before they are sorted.
MainLogic(s, cfg, data) ==
    IF ~(s.submitted /\ Len(s.lat) > 0 /\ Len(s.lon) > 0)
    THEN Ended("Info", Unbound, Unbound)
    ELSE
    LET la == Float(s.lat)
        lo == Float(s.lon)
    IN  IF ~la.ok THEN Ended("NotNumeric", Unbound, Unbound)
        ELSE IF ~lo.ok THEN Ended("NotNumeric", la.v, Unbound)
        ELSE IF ~InBounds(cfg.lat_min, la.v, cfg.lat_max)
             THEN Ended("LatOutOfBounds", la.v, lo.v)
        ELSE IF ~InBounds(cfg.lon_min, lo.v, cfg.lon_max)
             THEN Ended("LonOutOfBounds", la.v, lo.v)
        ELSE
        LET date_filtered == DateFiltered(data, s.date)
            row == ExactMatch(date_filtered, la.v, lo.v)
        IN  IF date_filtered = <<>> THEN Ended("NoDataForDate", la.v, lo.v)
            ELSE IF row = <<>> THEN Ended("GridPointNotFound", la.v, lo.v)
            ELSE [outcome |-> "Found", lat_val |-> la.v, lon_val |-> lo.v,
                  observation |-> << [lat |-> la.v, lon |-> lo.v, date |-> s.date,
                                      value |-> row[1].value] >>,
                  matched |-> ExactMatch(data, la.v, lo.v)]

-----------------------------------------------------------------------------
(* One execution of the script *)

\* Lines 62-64: the selected parameter's folder holds no parquet file; the
\* execution stops before it looks at the buttons and leaves the session
\* state s it started with.
NoParquetFiles(ev, p, s) ==
    /\ event' = ev
    /\ session' = s
    /\ parameter' = p
    /\ config' = GRID_CONFIG[p]
    /\ selected_year' = None
    /\ df' = <<>>
    /\ outcome' = "NoParquetFiles"
    /\ lat_val' = Unbound
    /\ lon_val' = Unbound
    /\ observation' = <<>>
    /\ all_data' = <<>>
    /\ UNCHANGED files

\* Lines 54-208 with the buttons handled: the widgets hold parameter p and
\* year y, and s is the session state the main logic reads.
Execute(ev, p, y, s) ==
    \E r \in {MainLogic(s, GRID_CONFIG[p], LoadYearData(p, y))} :
        /\ event' = ev
        /\ session' = s
        /\ parameter' = p
        /\ config' = GRID_CONFIG[p]
        /\ selected_year' = y
        /\ df' = LoadYearData(p, y)
        /\ outcome' = r.outcome
        /\ lat_val' = r.lat_val
        /\ lon_val' = r.lon_val
        /\ observation' = r.observation
        /\ all_data' \in SortValues(r.matched)
        /\ UNCHANGED files

YearSet(p) == {Years(p)[i] : i \in 1..Len(Years(p))}

\* The user changes a selectbox, the date or a text field: the script runs
\* again with no button pressed.  (A run whose parameter has no file ends the
\* same way whatever button was pressed.)
Rerun ==
    \E p \in ParamSet :
        IF Years(p) = <<>>
        THEN NoParquetFiles("rerun", p, session)
        ELSE \E y \in YearSet(p) : Execute("rerun", p, y, session)

\* The user presses Submit with the widgets holding p, y, d and the two texts.
SubmitWith(LatSet, LonSet) ==
    \E p \in ParamSet :
        /\ Years(p) # <<>>
        /\ \E y \in YearSet(p) :
           \E d \in MinDate(LoadYearData(p, y))..MaxDate(LoadYearData(p, y)) :
           \E lat_input \in LatSet, lon_input \in LonSet :
               Execute("submit", p, y,
                       SubmitSession(session, p, y, d, lat_input, lon_input))

\* The user presses Reset in an execution that gets past the file check: the
\* session state is cleared and st.experimental_rerun() runs the script
\* again, with the widgets holding p and y in that second run (whether a
\* widget keeps its value or falls back to its default is Streamlit's choice).
Reset ==
    /\ \E q \in ParamSet : Years(q) # <<>>
    /\ \E p \in ParamSet :
        IF Years(p) = <<>>
        THEN NoParquetFiles("reset", p, ResetSession(session))
        ELSE \E y \in YearSet(p) : Execute("reset", p, y, ResetSession(session))

-----------------------------------------------------------------------------
(* The dashboard on its data folder *)

\* What the user types into "Enter Latitude" / "Enter Longitude"
LatTexts ==
    { <<>>, <<"x">>, <<"6", ".", "5">>, <<"7", ".", "5">>,
      <<"1", "9", ".", "5", "1">> }

LonTexts ==
    { <<>>, <<"6", "6", ".", "5">>, <<"8", "0", ".", "5">> }

\* The state after the first execution of a new session
InitWith(store) ==
    /\ files = store
    /\ session = InitSession
    /\ event = "init"
    /\ parameter = "rain"
    /\ config = GRID_CONFIG["rain"]
    /\ selected_year = SelectSeq(AllYears, LAMBDA y : y \in DOMAIN store["rain"])[1]
    /\ df = store["rain"][selected_year]
    /\ outcome = "Info"
    /\ lat_val = Unbound
    /\ lon_val = Unbound
    /\ observation = <<>>
    /\ all_data = <<>>

Init == InitWith(DATA_FILES)

Submit == SubmitWith(LatTexts, LonTexts)

Next == Rerun \/ Submit \/ Reset

Spec == Init /\ [][Next]_vars

-----------------------------------------------------------------------------
(* The first query of a session, over every small data file *)

MaxRows == 2

RowPool ==
    { Row(2, Deg(750), Deg(8050), 10),
      Row(2, Deg(750) + 5, Deg(8050) - 5, 20),
      Row(1, Deg(750), Deg(8050), 30),
      Row(2, Deg(750), Deg(8150), 40),
      Row(2, Deg(750), Deg(8050), NaN),
      Row(2, NaN, Deg(8050), 50),
      Row(3, Deg(850), Deg(8050), 60) }

RowSeqs == UNION {[1..n -> RowPool] : n \in 1..MaxRows}

\* The same rows as the 2020 file of rain and of tmax and the 2021 file of tmin
Store(rows) ==
    [rain |-> ("2020" :> rows), tmax |-> ("2020" :> rows), tmin |-> ("2021" :> rows)]

\* A folder whose data/tmin holds no parquet file
StoreNoTmin ==
    [rain |-> ("2020" :> << Row(1, Deg(750), Deg(8050), 30) >>),
     tmax |-> ("2020" :> << Row(1, Deg(750), Deg(8050), 30) >>),
     tmin |-> << >>]

QueryLatTexts ==
    { <<"n", "a", "n">>, <<"6", ".", "5">>, <<"7", ".", "5">>,
      <<"7", ".", "5", "0", "0", "0", "0", "1">>, <<"8", ".", "5">>,
      <<"3", "8", ".", "5">> }

QueryLonTexts ==
    { <<"8", "0", ".", "5">>, <<"8", "1", ".", "5">>, <<"1", "0", "0">>,
      <<"1", "0", "0", ".", "5">> }

InitQuery == \E store \in {Store(rows) : rows \in RowSeqs} \cup {StoreNoTmin} :
                InitWith(store)

Query == ~session.submitted /\ SubmitWith(QueryLatTexts, QueryLonTexts)

NextQuery == Query \/ Rerun

SpecQuery == InitQuery /\ [][NextQuery]_vars

-----------------------------------------------------------------------------
(* Properties *)

\* The last execution got past the file check
HasData == selected_year # None

\* The last execution evaluated a query whose two texts are numbers
Queried ==
    /\ HasData
    /\ session.submitted /\ Len(session.lat) > 0 /\ Len(session.lon) > 0
    /\ Float(session.lat).ok /\ Float(session.lon).ok

\* The query coordinate as typed
QueryLat == Float(session.lat).v
QueryLon == Float(session.lon).v

Outside(x, lo, hi) == x # NaN /\ (x < lo \/ x > hi)
Inside(x, lo, hi) == x # NaN /\ lo <= x /\ x <= hi

InGrid ==
    /\ Inside(QueryLat, config.lat_min, config.lat_max)
    /\ Inside(QueryLon, config.lon_min, config.lon_max)

OutOfBounds == outcome \in {"LatOutOfBounds", "LonOutOfBounds"}

NothingShown == observation = <<>> /\ all_data = <<>>

\* Row i of the loaded data lies within epsilon of the query on both axes
Close(i) ==
    /\ df[i].lat # NaN /\ Abs(df[i].lat - QueryLat) < epsilon
    /\ df[i].lon # NaN /\ Abs(df[i].lon - QueryLon) < epsilon

OnDate(i) == df[i].date = session.date

Defined(i) == df[i].lat # NaN /\ df[i].lon # NaN /\ df[i].value # NaN

OnLattice(x, lo, res) == (x - lo) % res = 0

Count(seq, r) == Cardinality({i \in 1..Len(seq) : seq[i] = r})

\* C1: a query coordinate outside the selected parameter's closed lat/lon
\* intervals ends in an out-of-bounds error with nothing shown; one inside
\* them, boundary values included, is never rejected as out of bounds.
C1_BoundsCheck ==
    Queried =>
        /\ (\/ Outside(QueryLat, config.lat_min, config.lat_max)
            \/ Outside(QueryLon, config.lon_min, config.lon_max))
           => (OutOfBounds /\ NothingShown)
        /\ InGrid => ~OutOfBounds

\* a query on the grid's south-east corner got past the bounds check
C1_Witness ==
    /\ Queried /\ ~OutOfBounds
    /\ QueryLat = config.lat_min /\ QueryLon = config.lon_max

C3_DateFilter ==
    /\ (Queried /\ InGrid /\ \A i \in 1..Len(df) : ~OnDate(i))
         => (outcome = "NoDataForDate" /\ NothingShown)
    /\ outcome = "Found"
         => /\ observation[1].date = session.date
            /\ \E i \in 1..Len(df) : OnDate(i) /\ observation[1].value = df[i].value
    /\ outcome = "GridPointNotFound" => \E i \in 1..Len(df) : OnDate(i)

\* the query date lies between two dates of the data and has no record
C3_Witness ==
    /\ Queried /\ outcome = "NoDataForDate"
    /\ \E i, j \in 1..Len(df) : df[i].date < session.date /\ session.date < df[j].date

\* C4 as stated: no observation with an undefined value is returned, and when
\* every record of the query date has an undefined lat, lon or value the
\* outcome is "no data for selected date".
C4_NoUndefinedValue ==
    /\ outcome = "Found" => observation[1].value # NaN
    /\ (/\ Queried /\ InGrid
        /\ \E i \in 1..Len(df) : OnDate(i)
        /\ \A i \in 1..Len(df) : OnDate(i) => ~Defined(i))
         => outcome = "NoDataForDate"

\* C5: when a record of the query date lies within epsilon of the coordinate
\* on both axes, the value of the first such record in file order is returned;
\* a record close on one axis only is never returned.
C5_ExactMatch ==
    Queried =>
        /\ (InGrid /\ \E i \in 1..Len(df) : OnDate(i) /\ Close(i))
             => /\ outcome = "Found"
                /\ LET first == CHOOSE i \in 1..Len(df) :
                                   /\ OnDate(i) /\ Close(i)
                                   /\ \A j \in 1..i - 1 : ~(OnDate(j) /\ Close(j))
                   IN  observation[1].value = df[first].value
        /\ outcome = "Found" => \E i \in 1..Len(df) : OnDate(i) /\ Close(i)

\* two records of the date match and hold different values; the first is shown
C5_Witness ==
    /\ Queried /\ outcome = "Found"
    /\ \E i, j \in 1..Len(df) :
          /\ i < j /\ OnDate(i) /\ Close(i) /\ OnDate(j) /\ Close(j)
          /\ df[i].value # df[j].value
          /\ observation[1].value = df[i].value

MatchingDone == outcome \in {"Found", "GridPointNotFound"}

C7_SeriesSorted ==
    outcome = "Found" =>
        /\ \A i \in 1..Len(df) :
              Count(all_data, df[i]) =
                IF Close(i) THEN Cardinality({j \in 1..Len(df) : df[j] = df[i]}) ELSE 0
        /\ Len(all_data) = Cardinality({i \in 1..Len(df) : Close(i)})
        /\ \A k \in 1..Len(all_data) - 1 : all_data[k].date <= all_data[k + 1].date

\* the matching records stand in the file with the later date first
C7_Witness ==
    /\ outcome = "Found" /\ Len(all_data) >= 2
    /\ \E i, j \in 1..Len(df) :
          i < j /\ Close(i) /\ Close(j) /\ df[i].date > df[j].date

Aligned(c) ==
    /\ c.resolution > 0
    /\ c.lat_max >= c.lat_min /\ (c.lat_max - c.lat_min) % c.resolution = 0
    /\ c.lon_max >= c.lon_min /\ (c.lon_max - c.lon_min) % c.resolution = 0

\* C8: every registered grid config, and so the config of every execution,
\* has lattice-aligned bounds: max = min + k * resolution with k >= 0.
C8_ConfigAligned ==
    /\ \A p \in ParamSet : Aligned(GRID_CONFIG[p])
    /\ Aligned(config)

\* a query was evaluated against the rain grid
C8_Witness == parameter = "rain" /\ Queried /\ MatchingDone

\* C9 as stated: an execution that evaluates the query uses the parameter and
\* year captured at the last Submit for the grid config of the bounds check,
\* the data searched and the value column.
C9_UsesSubmittedQuery ==
    Queried =>
        /\ parameter = session.parameter
        /\ selected_year = session.year
        /\ config = GRID_CONFIG[session.parameter]
        /\ df = files[session.parameter][session.year]

====
